---------------------------- MODULE Spec2Model ----------------------------
(***************************************************************************)
(* eco9 backend (src/backend/server.ts): the activity impact calculator    *)
(* calculateImpact, the activity endpoints that embed its result, and the  *)
(* server's other routes: accounts, authentication and the mock routes.    *)
(*                                                                         *)
(* JavaScript values are records tagged by t.  A number is an exact        *)
(* rational n/d in lowest terms (d > 0) or NaN; binary64 representation    *)
(* error is not modelled.  A string is its sequence of characters.  An     *)
(* object is the sequence of its own properties in insertion order.        *)
(***************************************************************************)
EXTENDS Integers, Sequences, FiniteSets, TLC

VARIABLES
    impactMultipliers,  \* the table bound by the latest activation of calculateImpact
    calls,              \* the calculateImpact invocations of the current run: [category, value, unit, result]
    users,              \* the rows of the users table
    users_id_seq,       \* the last value drawn from the sequence behind users.id
    request,            \* the HTTP request being served, NoRequest when idle
    response,           \* the HTTP response to it, NoResponse until it is written
    handled             \* whether the route handler of the request has run

vars == <<impactMultipliers, calls, users, users_id_seq, request, response, handled>>

---------------------------------------------------------------------------
(* Bounds of the model.                                                    *)

\* values k/10 for k in -MaxTenths..MaxTenths are drawn as inputs
MaxTenths == 6
\* values k/100 for k in -MaxCents..MaxCents are drawn as inputs
MaxCents == 4
\* longest recorded sequence of successive calculateImpact invocations
MaxCalls == 3
\* most rows inserted into users after the seed rows
MaxInserts == 2

---------------------------------------------------------------------------
(* JavaScript values.                                                      *)

Undefined == [t |-> "undefined"]
Null == [t |-> "null"]
NaN == [t |-> "NaN"]
Bool(b) == [t |-> "boolean", b |-> b]
Str(chars) == [t |-> "string", s |-> chars]
Obj(props) == [t |-> "object", props |-> props]
\* a built-in function object inherited from Object.prototype (no own enumerable keys)
Builtin == [t |-> "function"]
\* the exception a property read on undefined or null raises
TypeError == [t |-> "TypeError"]

Abs(n) == IF n < 0 THEN -n ELSE n

RECURSIVE GCD(_, _)
GCD(a, b) == IF b = 0 THEN a ELSE GCD(b, a % b)

\* the number n/d (d > 0), in lowest terms
Num(n, d) ==
    LET g == GCD(Abs(n), d)
    IN  [t |-> "number", n |-> n \div g, d |-> d \div g]

IsNum(v) == v.t = "number"

\* x * y on numbers
Mul(x, y) ==
    IF IsNum(x) /\ IsNum(y) THEN Num(x.n * y.n, x.d * y.d) ELSE NaN

\* x / y on numbers, y a non-zero number
Div(x, y) ==
    IF IsNum(x) /\ IsNum(y)
    THEN IF y.n > 0 THEN Num(x.n * y.d, x.d * y.n) ELSE Num(-(x.n * y.d), x.d * (-y.n))
    ELSE NaN

\* Math.round: the nearest integer, a tie going towards +Infinity
MathRound(x) ==
    IF IsNum(x) THEN Num((2 * x.n + x.d) \div (2 * x.d), 1) ELSE NaN

Less(x, y) == IsNum(x) /\ IsNum(y) /\ x.n * y.d < y.n * x.d

Zero == Num(0, 1)

---------------------------------------------------------------------------
(* Conversions (ECMAScript ToNumber, ToBoolean, ToPropertyKey).            *)

Digits == <<"0", "1", "2", "3", "4", "5", "6", "7", "8", "9">>

IsDigit(c) == \E i \in 1..10 : Digits[i] = c
DigitVal(c) == (CHOOSE i \in 1..10 : Digits[i] = c) - 1

RECURSIVE TrimLeft(_)
TrimLeft(cs) == IF cs # <<>> /\ Head(cs) = " " THEN TrimLeft(Tail(cs)) ELSE cs

RECURSIVE TrimRight(_)
TrimRight(cs) ==
    IF cs # <<>> /\ cs[Len(cs)] = " " THEN TrimRight(SubSeq(cs, 1, Len(cs) - 1)) ELSE cs

\* the value of a run of decimal digits
RECURSIVE DigitsVal(_)
DigitsVal(cs) ==
    IF cs = <<>> THEN 0 ELSE 10 * DigitsVal(SubSeq(cs, 1, Len(cs) - 1)) + DigitVal(cs[Len(cs)])

RECURSIVE Pow10(_)
Pow10(k) == IF k = 0 THEN 1 ELSE 10 * Pow10(k - 1)

\* StringToNumber of an unsigned decimal literal: digits, optionally "." and digits
UnsignedToNumber(cs) ==
    LET dots == {i \in 1..Len(cs) : cs[i] = "."}
    IN  IF cs = <<>> \/ \E i \in 1..Len(cs) : ~IsDigit(cs[i]) /\ cs[i] # "."
        THEN NaN
        ELSE IF dots = {}
        THEN Num(DigitsVal(cs), 1)
        ELSE IF Cardinality(dots) > 1 \/ Len(cs) = 1
        THEN NaN
        ELSE LET p == CHOOSE i \in dots : TRUE
                 int == SubSeq(cs, 1, p - 1)
                 frac == SubSeq(cs, p + 1, Len(cs))
             IN  Num(DigitsVal(int) * Pow10(Len(frac)) + DigitsVal(frac), Pow10(Len(frac)))

\* StringToNumber: white space trimmed, "" is 0, an optional sign, a decimal literal
StringToNumber(chars) ==
    LET cs == TrimRight(TrimLeft(chars))
    IN  IF cs = <<>> THEN Zero
        ELSE IF Head(cs) = "-" THEN Mul(Num(-1, 1), UnsignedToNumber(Tail(cs)))
        ELSE IF Head(cs) = "+" THEN UnsignedToNumber(Tail(cs))
        ELSE UnsignedToNumber(cs)

\* ToNumber, as applied by the * operator and by Number(v)
ToNumber(v) ==
    CASE v.t = "number" -> v
      [] v.t = "NaN" -> NaN
      [] v.t = "undefined" -> NaN
      [] v.t = "null" -> Zero
      [] v.t = "boolean" -> IF v.b THEN Num(1, 1) ELSE Zero
      [] v.t = "string" -> StringToNumber(v.s)
      [] OTHER -> NaN

\* ToBoolean: what `if (v)`, `!v`, `v || w` and `v ? a : b` test
Truthy(v) ==
    CASE v.t = "undefined" -> FALSE
      [] v.t = "null" -> FALSE
      [] v.t = "NaN" -> FALSE
      [] v.t = "boolean" -> v.b
      [] v.t = "number" -> v.n # 0
      [] v.t = "string" -> v.s # <<>>
      [] OTHER -> TRUE

\* a || b
OrElse(a, b) == IF Truthy(a) THEN a ELSE b

RECURSIVE Join(_)
Join(chars) == IF chars = <<>> THEN "" ELSE Head(chars) \o Join(Tail(chars))

LowerChar(c) ==
    CASE c = "T" -> "t" [] c = "E" -> "e" [] c = "W" -> "w" [] OTHER -> c

\* mutant: the category is matched without regard to the case of its first letter
ToPropertyKey_ignoreCase(v) ==
    CASE v.t = "string" -> Join([i \in 1..Len(v.s) |-> LowerChar(v.s[i])])
      [] v.t = "undefined" -> "undefined"
      [] v.t = "null" -> "null"
      [] OTHER -> "[object]"

\* ToPropertyKey of the values used as keys here
ToPropertyKey(v) ==
    CASE v.t = "string" -> Join(v.s)
      [] v.t = "undefined" -> "undefined"
      [] v.t = "null" -> "null"
      [] OTHER -> "[object]"

---------------------------------------------------------------------------
(* Property access on objects.                                             *)

\* properties every object inherits from Object.prototype (non-enumerable)
ObjectPrototypeKeys ==
    {"constructor", "toString", "valueOf", "hasOwnProperty", "__proto__"}

OwnIndex(o, key) == {i \in 1..Len(o.props) : o.props[i].key = key}

\* o[key]: own property, else inherited, else undefined; TypeError on undefined/null
Get(o, key) ==
    CASE o.t \in {"undefined", "null", "TypeError"} -> TypeError
      [] o.t = "object" ->
            IF OwnIndex(o, key) # {}
            THEN o.props[CHOOSE i \in OwnIndex(o, key) : TRUE].val
            ELSE IF key \in ObjectPrototypeKeys THEN Builtin ELSE Undefined
      [] o.t = "function" ->
            IF key \in ObjectPrototypeKeys THEN Builtin ELSE Undefined
      [] OTHER -> Undefined

\* mutant: the last declared subtype is taken instead of the first
FirstKey_last(o) ==
    CASE o.t \in {"undefined", "null", "TypeError"} -> TypeError
      [] o.t = "object" ->
            IF o.props = <<>> THEN Undefined
            ELSE [t |-> "key", key |-> o.props[Len(o.props)].key]
      [] OTHER -> Undefined

\* Object.keys(o)[0]: the first own enumerable key in insertion order
FirstKey(o) ==
    CASE o.t \in {"undefined", "null", "TypeError"} -> TypeError
      [] o.t = "object" ->
            IF o.props = <<>> THEN Undefined ELSE [t |-> "key", key |-> o.props[1].key]
      [] OTHER -> Undefined

KeyOf(k) == IF k.t = "key" THEN k.key ELSE ToPropertyKey(k)

Prop(key, val) == [key |-> key, val |-> val]


---------------------------------------------------------------------------
(* calculateImpact (server.ts 154-190).                                    *)

\* the object literal bound to `const impactMultipliers`
ImpactMultipliersLiteral ==
    Obj(<<
        Prop("transport", Obj(<<
            Prop("biking", Obj(<<Prop("co2_per_mile", Num(4, 10)), Prop("water_per_mile", Num(1, 10))>>)),
            Prop("walking", Obj(<<Prop("co2_per_mile", Num(3, 10)), Prop("water_per_mile", Num(5, 100))>>)),
            Prop("public_transport", Obj(<<Prop("co2_per_mile", Num(2, 10)), Prop("water_per_mile", Num(8, 100))>>))
        >>)),
        Prop("energy", Obj(<<
            Prop("solar", Obj(<<Prop("co2_per_kwh", Num(25, 10)), Prop("water_per_kwh", Num(5, 10))>>)),
            Prop("led_bulbs", Obj(<<Prop("co2_per_hour", Num(1, 10)), Prop("water_per_hour", Num(2, 100))>>))
        >>)),
        Prop("waste", Obj(<<
            Prop("recycling", Obj(<<Prop("co2_per_kg", Num(18, 10)), Prop("water_per_kg", Num(3, 10))>>)),
            Prop("composting", Obj(<<Prop("co2_per_kg", Num(21, 10)), Prop("water_per_kg", Num(4, 10))>>))
        >>))
    >>)

\* mutant: the table is bound once, outside the function, and each activation
\* consumes the first subtype of every category
BindImpactMultipliers_shared(current) ==
    Obj([i \in 1..Len(current.props) |->
            Prop(current.props[i].key,
                 Obj(IF current.props[i].val.props = <<>> THEN <<>>
                     ELSE Tail(current.props[i].val.props)))])

\* each activation evaluates the literal anew, whatever an earlier activation bound
BindImpactMultipliers(current) == ImpactMultipliersLiteral

\* the default multipliers of lines 173-174 (and the || fallbacks of 181-182)
DefaultCo2 == Num(5, 10)
DefaultWater == Num(1, 10)

Hundred == Num(100, 1)

\* the value a call that raised ends with
Thrown == [threw |-> "TypeError"]

\* mutant: the products are returned as computed, without rounding
ImpactRecord_unrounded(co2_saved, water_conserved) ==
    [co2_saved |-> co2_saved, water_conserved |-> water_conserved]

\* mutant: the fields are rounded to one decimal (* 10, / 10)
ImpactRecord_oneDecimal(co2_saved, water_conserved) ==
    [co2_saved |-> Div(MathRound(Mul(co2_saved, Num(10, 1))), Num(10, 1)),
     water_conserved |-> Div(MathRound(Mul(water_conserved, Num(10, 1))), Num(10, 1))]

\* lines 186-189: the returned record, each field rounded to two decimals
ImpactRecord(co2_saved, water_conserved) ==
    [co2_saved |-> Div(MathRound(Mul(co2_saved, Hundred)), Hundred),
     water_conserved |-> Div(MathRound(Mul(water_conserved, Hundred)), Hundred)]

\* lines 181-182: the factor read off the first subtype's record
Co2Factor(entry) ==
    OrElse(OrElse(OrElse(Get(entry, "co2_per_mile"), Get(entry, "co2_per_kwh")),
                  Get(entry, "co2_per_kg")), DefaultCo2)

WaterFactor(entry) ==
    OrElse(OrElse(OrElse(Get(entry, "water_per_mile"), Get(entry, "water_per_kwh")),
                  Get(entry, "water_per_kg")), DefaultWater)

\* mutant: line 177's `if (impactMultipliers[category])` is dropped, so the keys
\* of a missing category are read
ResolveMultiplier_unguarded(table, category) ==
    LET categoryData == Get(table, ToPropertyKey(category))
        firstKey == FirstKey(categoryData)
        entry == IF firstKey = TypeError THEN TypeError
                 ELSE Get(categoryData, KeyOf(firstKey))
    IN  IF entry = TypeError THEN Thrown
        ELSE IF Truthy(entry)
        THEN [co2 |-> Co2Factor(entry), water |-> WaterFactor(entry)]
        ELSE [co2 |-> DefaultCo2, water |-> DefaultWater]

\* lines 177-184: the multiplier pair that governs the category, the defaults
\* of lines 173-174 standing when either `if` fails; Thrown if a read raises
ResolveMultiplier(table, category) ==
    LET defaults == [co2 |-> DefaultCo2, water |-> DefaultWater]
        categoryData == Get(table, ToPropertyKey(category))
    IN  IF categoryData = TypeError THEN Thrown
        ELSE IF Truthy(categoryData)
        THEN LET firstKey == FirstKey(categoryData)
                 entry == IF firstKey = TypeError THEN TypeError
                          ELSE Get(categoryData, KeyOf(firstKey))
             IN  IF entry = TypeError THEN Thrown
                 ELSE IF Truthy(entry)
                 THEN [co2 |-> Co2Factor(entry), water |-> WaterFactor(entry)]
                 ELSE defaults
        ELSE defaults

\* mutant: the factor is read under the name the unit suggests (co2_per_kg for
\* kg, ...), the default standing when the record has no such field
calculateImpactBody_byUnit(table, category, value, unit) ==
    LET m == ResolveMultiplier(table, category)
        categoryData == Get(table, ToPropertyKey(category))
        entry == IF Truthy(categoryData)
                 THEN Get(categoryData, KeyOf(FirstKey(categoryData))) ELSE Undefined
        suffix == IF ToPropertyKey(unit) = "kg" THEN "per_kg"
                  ELSE IF ToPropertyKey(unit) = "kwh" THEN "per_kwh" ELSE "per_mile"
        co2 == IF Truthy(entry) THEN OrElse(Get(entry, "co2_" \o suffix), DefaultCo2) ELSE DefaultCo2
        wat == IF Truthy(entry) THEN OrElse(Get(entry, "water_" \o suffix), DefaultWater) ELSE DefaultWater
    IN  IF m = Thrown THEN Thrown
        ELSE ImpactRecord(Mul(ToNumber(value), co2), Mul(ToNumber(value), wat))

\* mutant: a falsy value is replaced by 1 before it is multiplied
calculateImpactBody_defaultValue(table, category, value, unit) ==
    LET m == ResolveMultiplier(table, category)
        v == OrElse(ToNumber(value), Num(1, 1))
    IN  IF m = Thrown THEN Thrown
        ELSE ImpactRecord(Mul(v, m.co2), Mul(v, m.water))

\* mutant: a negative value is clamped to 0 before it is multiplied
calculateImpactBody_clamped(table, category, value, unit) ==
    LET m == ResolveMultiplier(table, category)
        v == IF Less(ToNumber(value), Zero) THEN Zero ELSE ToNumber(value)
    IN  IF m = Thrown THEN Thrown
        ELSE ImpactRecord(Mul(v, m.co2), Mul(v, m.water))

\* lines 172-189, with the table the activation bound
calculateImpactBody(table, category, value, unit) ==
    LET m == ResolveMultiplier(table, category)
    IN  IF m = Thrown THEN Thrown
        ELSE ImpactRecord(Mul(ToNumber(value), m.co2), Mul(ToNumber(value), m.water))

\* calculateImpact(category, value, unit): the activation binds its table, then
\* runs the body
calculateImpact(category, value, unit) ==
    calculateImpactBody(BindImpactMultipliers(impactMultipliers), category, value, unit)

Returned(result) == result # Thrown

---------------------------------------------------------------------------
(* Inputs.                                                                 *)

transport == Str(<<"t", "r", "a", "n", "s", "p", "o", "r", "t">>)
energy == Str(<<"e", "n", "e", "r", "g", "y">>)
waste == Str(<<"w", "a", "s", "t", "e">>)
diet == Str(<<"d", "i", "e", "t">>)
water == Str(<<"w", "a", "t", "e", "r">>)
miles == Str(<<"m", "i", "l", "e", "s">>)
kwh == Str(<<"k", "w", "h">>)
kg == Str(<<"k", "g">>)
EmptyString == Str(<<>>)

\* the keys of the table, the other categories the activity form offers, and
\* strings that are no key: mis-cased, empty, the name of a subtype, and names
\* every object inherits
KnownCategories == {transport, energy, waste}
FormCategories == {transport, energy, waste, diet, water}
UnknownCategories ==
    (FormCategories \ KnownCategories) \cup
    {EmptyString,
     Str(<<"T", "r", "a", "n", "s", "p", "o", "r", "t">>),
     Str(<<"b", "i", "k", "i", "n", "g">>),
     Str(<<"c", "o", "n", "s", "t", "r", "u", "c", "t", "o", "r">>),
     Str(<<"_", "_", "p", "r", "o", "t", "o", "_", "_">>)}
Categories == KnownCategories \cup UnknownCategories

Units == {miles, kwh, kg}

\* the values of the mock activities (5.2, 3.5, 2.1)
MockValues == {Num(52, 10), Num(35, 10), Num(21, 10)}

Values ==
    {Num(k, 10) : k \in -MaxTenths..MaxTenths}
        \cup {Num(k, 100) : k \in -MaxCents..MaxCents}
        \cup MockValues \cup {NaN}

---------------------------------------------------------------------------
(* The calculator called directly.                                         *)

Call(category, value, unit, result) ==
    [category |-> category, value |-> value, unit |-> unit, result |-> result]

NoRequest == [route |-> "none"]
NoResponse == [status |-> "none"]

\* a row of users: the columns id, username, email and password_hash (the
\* nullable columns full_name and profile_image_url and created_at, which no
\* handler branches on, are left out)
UserRow(id, username, email, password_hash) ==
    [id |-> id, username |-> username, email |-> email, password_hash |-> password_hash]

\* the rows db.sql inserts into users, their ids drawn from the sequence
SeedUsers ==
    {[id |-> 1,
      username |-> Str(<<"j", "o", "h", "n", "_", "d", "o", "e">>),
      email |-> Str(<<"j", "o", "h", "n", "@", "e", "x", "a", "m", "p", "l", "e", ".", "c", "o", "m">>),
      password_hash |-> Str(<<"p", "a", "s", "s", "w", "o", "r", "d", "1", "2", "3">>)],
     [id |-> 2,
      username |-> Str(<<"j", "a", "n", "e", "_", "s", "m", "i", "t", "h">>),
      email |-> Str(<<"j", "a", "n", "e", "@", "e", "x", "a", "m", "p", "l", "e", ".", "c", "o", "m">>),
      password_hash |-> Str(<<"a", "d", "m", "i", "n", "1", "2", "3">>)],
     [id |-> 3,
      username |-> Str(<<"m", "i", "k", "e", "_", "b", "r", "o", "w", "n">>),
      email |-> Str(<<"m", "i", "k", "e", "@", "e", "x", "a", "m", "p", "l", "e", ".", "c", "o", "m">>),
      password_hash |-> Str(<<"u", "s", "e", "r", "1", "2", "3">>)],
     [id |-> 4,
      username |-> Str(<<"s", "a", "r", "a", "h", "_", "w", "i", "l", "s", "o", "n">>),
      email |-> Str(<<"s", "a", "r", "a", "h", "@", "e", "x", "a", "m", "p", "l", "e", ".", "c", "o", "m">>),
      password_hash |-> Str(<<"p", "a", "s", "s", "w", "o", "r", "d", "1", "2", "3">>)],
     [id |-> 5,
      username |-> Str(<<"a", "l", "e", "x", "_", "j", "o", "n", "e", "s">>),
      email |-> Str(<<"a", "l", "e", "x", "@", "e", "x", "a", "m", "p", "l", "e", ".", "c", "o", "m">>),
      password_hash |-> Str(<<"a", "d", "m", "i", "n", "1", "2", "3">>)]}

Init ==
    /\ impactMultipliers = ImpactMultipliersLiteral
    /\ calls = <<>>
    /\ users = SeedUsers
    /\ users_id_seq = Cardinality(SeedUsers)
    /\ request = NoRequest
    /\ response = NoResponse
    /\ handled = FALSE

\* one invocation calculateImpact(category, value, unit), recorded after the
\* invocations `earlier`
Invoke(category, value, unit, earlier) ==
    /\ impactMultipliers' = BindImpactMultipliers(impactMultipliers)
    /\ calls' = Append(earlier, Call(category, value, unit, calculateImpact(category, value, unit)))
    /\ UNCHANGED <<users, users_id_seq, request, response, handled>>

\* any one call
Next ==
    \E category \in Categories, value \in Values, unit \in Units :
        Invoke(category, value, unit, <<>>)

Spec == Init /\ [][Next]_vars

\* calls following one another, with any arguments, up to MaxCalls of them
SeqCategories == {transport, waste, diet}
SeqValues == {Num(1, 2), Num(-1, 100), Zero}
SeqUnits == {miles, kg}

NextCalls ==
    \E category \in SeqCategories, value \in SeqValues, unit \in SeqUnits :
        /\ Len(calls) < MaxCalls
        /\ Invoke(category, value, unit, calls)

SpecCalls == Init /\ [][NextCalls]_vars

---------------------------------------------------------------------------
(* The activity endpoints (server.ts 126-147, 423-595).                    *)

\* an Authorization header, already split at its spaces
Header(parts) == [t |-> "header", parts |-> parts]
\* a bearer token: whether jwt.verify accepts it, and the user_id it carries
Jwt(verifies, user_id) == [t |-> "jwt", verifies |-> verifies, user_id |-> user_id]

\* authHeader && authHeader.split(' ')[1]
BearerToken(authHeader) ==
    IF ~Truthy(authHeader) THEN authHeader
    ELSE IF Len(authHeader.parts) < 2 THEN Undefined
    ELSE authHeader.parts[2]

\* createErrorResponse(message, null, errorCode), sent with a status
ErrorResponse(status, message, errorCode) ==
    [status |-> status,
     body |-> [success |-> FALSE, message |-> message, error_code |-> errorCode]]

\* mutant: a request without a token is let through as the first user
authenticateToken_anonymous(req) ==
    LET token == BearerToken(req.headers.authorization)
    IN  IF ~Truthy(token)
        THEN [next |-> TRUE, user |-> CHOOSE u \in users : \A v \in users : u.id <= v.id]
        ELSE IF token.t # "jwt" \/ ~token.verifies
        THEN [next |-> FALSE,
              response |-> ErrorResponse(403, "Invalid or expired token", "AUTH_TOKEN_INVALID")]
        ELSE LET rows == {u \in users : u.id = token.user_id}
             IN  IF rows = {}
                 THEN [next |-> FALSE,
                       response |-> ErrorResponse(401, "Invalid token", "AUTH_USER_NOT_FOUND")]
                 ELSE [next |-> TRUE, user |-> CHOOSE u \in rows : TRUE]

\* authenticateToken: the response it ends the request with, or the user row
\* it attaches before calling next()
authenticateToken(req) ==
    LET token == BearerToken(req.headers.authorization)
    IN  IF ~Truthy(token)
        THEN [next |-> FALSE,
              response |-> ErrorResponse(401, "Access token required", "AUTH_TOKEN_MISSING")]
        ELSE IF token.t # "jwt" \/ ~token.verifies
        THEN [next |-> FALSE,
              response |-> ErrorResponse(403, "Invalid or expired token", "AUTH_TOKEN_INVALID")]
        ELSE LET rows == {u \in users : u.id = token.user_id}
             IN  IF rows = {}
                 THEN [next |-> FALSE,
                       response |-> ErrorResponse(401, "Invalid token", "AUTH_USER_NOT_FOUND")]
                 ELSE [next |-> TRUE, user |-> CHOOSE u \in rows : TRUE]

\* n.toString() for an integer n >= 0
RECURSIVE IntToChars(_)
IntToChars(n) ==
    IF n < 10 THEN <<Digits[n + 1]>> ELSE IntToChars(n \div 10) \o <<Digits[(n % 10) + 1]>>

\* new Date(Date.now() - ago days).toISOString()
IsoTime(ago) == [t |-> "isotime", ago |-> ago]
\* uuidv4()
Uuid == [t |-> "uuid"]

Activity(id, user, category, value, unit, timestamp, impact) ==
    [id |-> id, user_id |-> Str(IntToChars(user.id)), category |-> category,
     value |-> value, unit |-> unit, timestamp |-> timestamp, impact |-> impact]

\* what a handler leaves: the response it wrote and the calculateImpact
\* invocations it made, in order
Outcome(resp, made) == [response |-> resp, calls |-> made, handled |-> TRUE]

InternalError ==
    ErrorResponse(500, "Internal server error", "INTERNAL_SERVER_ERROR")

\* a destructuring default: used when the property is undefined
Default(v, d) == IF v = Undefined THEN d ELSE v

Add(x, y) ==
    IF IsNum(x) /\ IsNum(y) THEN Num(x.n * y.d + y.n * x.d, x.d * y.d) ELSE NaN

\* ToIntegerOrInfinity of a number: NaN is 0, a fraction is truncated
ToInteger(x) ==
    IF ~IsNum(x) THEN 0
    ELSE IF x.n >= 0 THEN x.n \div x.d ELSE -((-x.n) \div x.d)

\* Array.prototype.slice(start, end)
Slice(seq, start, end) ==
    LET len == Len(seq)
        rel(k) == IF k < 0 THEN (IF len + k < 0 THEN 0 ELSE len + k)
                  ELSE IF k > len THEN len ELSE k
        from == rel(ToInteger(start))
        to == rel(ToInteger(end))
    IN  IF from >= to THEN <<>> ELSE SubSeq(seq, from + 1, to)

\* lines 428-456: the three mock activities
mockActivities(user) ==
    <<Activity(Str(<<"1">>), user, transport, Num(52, 10), miles, IsoTime(1),
               calculateImpact(transport, Num(52, 10), miles)),
      Activity(Str(<<"2">>), user, energy, Num(35, 10), kwh, IsoTime(2),
               calculateImpact(energy, Num(35, 10), kwh)),
      Activity(Str(<<"3">>), user, waste, Num(21, 10), kg, IsoTime(3),
               calculateImpact(waste, Num(21, 10), kg))>>

\* the calls lines 436, 445 and 454 make
mockCalls ==
    <<Call(transport, Num(52, 10), miles, calculateImpact(transport, Num(52, 10), miles)),
      Call(energy, Num(35, 10), kwh, calculateImpact(energy, Num(35, 10), kwh)),
      Call(waste, Num(21, 10), kg, calculateImpact(waste, Num(21, 10), kg))>>

\* lines 466-472: the number a[sort_by] is compared by; the other properties
\* of an activity are excluded from the sort keys drawn
SortKey(activity, sort_by) ==
    IF ToPropertyKey(sort_by) = "timestamp" THEN Num(-activity.timestamp.ago, 1)
    ELSE activity.value

\* whether the comparator of lines 465-479 orders the activities by sort_by
\* (it never returns 0, and on values neither < nor > it always returns -1)
Comparable(sort_by) == ToPropertyKey(sort_by) \in {"timestamp", "value"}

\* lines 474-478: a goes after b
After(a, b, sort_by, sort_order) ==
    IF ToPropertyKey(sort_order) = "asc"
    THEN Less(SortKey(b, sort_by), SortKey(a, sort_by))
    ELSE Less(SortKey(a, sort_by), SortKey(b, sort_by))

\* the arrays Array.prototype.sort may leave: the one the comparator orders,
\* or any arrangement when the comparator is inconsistent
Sorted(seq, sort_by, sort_order) ==
    LET arrangements ==
            {[i \in 1..Len(seq) |-> seq[f[i]]] : f \in Permutations(1..Len(seq))}
    IN  IF Comparable(sort_by)
        THEN {a \in arrangements :
                \A i, j \in 1..Len(a) : i < j => ~After(a[i], a[j], sort_by, sort_order)}
        ELSE arrangements

\* lines 461: filter(activity => activity.category === category)
RECURSIVE FilterCategory(_, _)
FilterCategory(seq, category) ==
    IF seq = <<>> THEN <<>>
    ELSE IF Head(seq).category = category
    THEN <<Head(seq)>> \o FilterCategory(Tail(seq), category)
    ELSE FilterCategory(Tail(seq), category)

\* GET /api/activities, lines 425-484, for the arrangement `sorted` the sort left
ListActivitiesHandler(req, user, sorted) ==
    LET limit == Default(req.query.limit, Num(10, 1))
        offset == Default(req.query.offset, Zero)
        paginated == Slice(sorted, ToNumber(offset), Add(ToNumber(offset), ToNumber(limit)))
    IN  Outcome([status |-> 200, body |-> paginated], mockCalls)

\* lines 459-479: the arrangements the filter and the sort may leave
ListArrangements(req, user) ==
    LET sort_by == Default(req.query.sort_by, Str(<<"t", "i", "m", "e", "s", "t", "a", "m", "p">>))
        sort_order == Default(req.query.sort_order, Str(<<"d", "e", "s", "c">>))
        filtered == IF Truthy(req.query.category)
                    THEN FilterCategory(mockActivities(user), req.query.category)
                    ELSE mockActivities(user)
    IN  Sorted(filtered, sort_by, sort_order)

\* mutant: the timestamp is required as well
CreateActivityHandler_timestampRequired(req, user) ==
    LET category == req.body.category
        value == req.body.value
        unit == req.body.unit
        timestamp == req.body.timestamp
    IN  IF ~Truthy(category) \/ ~Truthy(value) \/ ~Truthy(unit) \/ ~Truthy(timestamp)
        THEN Outcome(ErrorResponse(400, "Category, value, and unit are required",
                                   "MISSING_REQUIRED_FIELDS"), <<>>)
        ELSE LET impact == calculateImpact(category, value, unit)
                 made == <<Call(category, value, unit, impact)>>
             IN  IF ~Returned(impact) THEN Outcome(InternalError, made)
                 ELSE Outcome([status |-> 201,
                               body |-> Activity(Uuid, user, category, ToNumber(value), unit,
                                                 OrElse(timestamp, IsoTime(0)), impact)],
                              made)

\* mutant: the unit is not required
CreateActivityHandler_unitOptional(req, user) ==
    LET category == req.body.category
        value == req.body.value
        unit == req.body.unit
        timestamp == req.body.timestamp
    IN  IF ~Truthy(category) \/ ~Truthy(value)
        THEN Outcome(ErrorResponse(400, "Category, value, and unit are required",
                                   "MISSING_REQUIRED_FIELDS"), <<>>)
        ELSE LET impact == calculateImpact(category, value, unit)
                 made == <<Call(category, value, unit, impact)>>
             IN  IF ~Returned(impact) THEN Outcome(InternalError, made)
                 ELSE Outcome([status |-> 201,
                               body |-> Activity(Uuid, user, category, ToNumber(value), unit,
                                                 OrElse(timestamp, IsoTime(0)), impact)],
                              made)

\* POST /api/activities, lines 498-518
CreateActivityHandler(req, user) ==
    LET category == req.body.category
        value == req.body.value
        unit == req.body.unit
        timestamp == req.body.timestamp
    IN  IF ~Truthy(category) \/ ~Truthy(value) \/ ~Truthy(unit)
        THEN Outcome(ErrorResponse(400, "Category, value, and unit are required",
                                   "MISSING_REQUIRED_FIELDS"), <<>>)
        ELSE LET impact == calculateImpact(category, value, unit)
                 made == <<Call(category, value, unit, impact)>>
             IN  IF ~Returned(impact) THEN Outcome(InternalError, made)
                 ELSE Outcome([status |-> 201,
                               body |-> Activity(Uuid, user, category, ToNumber(value), unit,
                                                 OrElse(timestamp, IsoTime(0)), impact)],
                              made)

\* GET /api/activities/:activity_id, lines 532-545
GetActivityHandler(req, user) ==
    LET impact == calculateImpact(transport, Num(52, 10), miles)
        made == <<Call(transport, Num(52, 10), miles, impact)>>
    IN  IF ~Returned(impact) THEN Outcome(InternalError, made)
        ELSE Outcome([status |-> 200,
                      body |-> Activity(req.params.activity_id, user, transport, Num(52, 10),
                                        miles, IsoTime(0), impact)],
                     made)

\* mutant: the impact is computed from the body's fields as sent, without the
\* defaults the resource's fields get
UpdateActivityHandler_rawImpact(req, user) ==
    LET category == req.body.category
        value == req.body.value
        unit == req.body.unit
        timestamp == req.body.timestamp
        impact == calculateImpact(category, value, unit)
        made == <<Call(category, value, unit, impact)>>
    IN  IF ~Returned(impact) THEN Outcome(InternalError, made)
        ELSE Outcome([status |-> 200,
                      body |-> Activity(req.params.activity_id, user,
                                        OrElse(category, transport),
                                        IF Truthy(value) THEN ToNumber(value) ELSE Num(52, 10),
                                        OrElse(unit, miles),
                                        OrElse(timestamp, IsoTime(0)), impact)],
                     made)

\* PUT /api/activities/:activity_id, lines 559-573
UpdateActivityHandler(req, user) ==
    LET category == req.body.category
        value == req.body.value
        unit == req.body.unit
        timestamp == req.body.timestamp
        impact == calculateImpact(OrElse(category, transport), OrElse(value, Num(52, 10)),
                                  OrElse(unit, miles))
        made == <<Call(OrElse(category, transport), OrElse(value, Num(52, 10)),
                       OrElse(unit, miles), impact)>>
    IN  IF ~Returned(impact) THEN Outcome(InternalError, made)
        ELSE Outcome([status |-> 200,
                      body |-> Activity(req.params.activity_id, user,
                                        OrElse(category, transport),
                                        IF Truthy(value) THEN ToNumber(value) ELSE Num(52, 10),
                                        OrElse(unit, miles),
                                        OrElse(timestamp, IsoTime(0)), impact)],
                     made)

\* DELETE /api/activities/:activity_id, lines 587-590
DeleteActivityHandler(req, user) == Outcome([status |-> 204], <<>>)

---------------------------------------------------------------------------
(* Accounts: the zod schemas of the users and the routes that read and     *)
(* write the users table (server.ts 199-414).                              *)

LowerLetters ==
    <<"a", "b", "c", "d", "e", "f", "g", "h", "i", "j", "k", "l", "m",
      "n", "o", "p", "q", "r", "s", "t", "u", "v", "w", "x", "y", "z">>
UpperLetters ==
    <<"A", "B", "C", "D", "E", "F", "G", "H", "I", "J", "K", "L", "M",
      "N", "O", "P", "Q", "R", "S", "T", "U", "V", "W", "X", "Y", "Z">>

IsLetter(c) == \E i \in 1..Len(LowerLetters) : c = LowerLetters[i] \/ c = UpperLetters[i]
IsAlnum(c) == IsLetter(c) \/ IsDigit(c)

\* String.prototype.toLowerCase on the characters of a string
ToLowerCase(chars) ==
    [k \in 1..Len(chars) |->
        IF \E i \in 1..Len(UpperLetters) : chars[k] = UpperLetters[i]
        THEN LowerLetters[CHOOSE i \in 1..Len(UpperLetters) : chars[k] = UpperLetters[i]]
        ELSE chars[k]]

\* email.toLowerCase().trim()
NormalizeEmail(email) == Str(TrimRight(TrimLeft(ToLowerCase(email.s))))

\* z.string().email(): one "@"; before it a local part of letters, digits
\* and _ ' + - . that neither starts nor ends with "." ; after it labels of
\* letters, digits and "-" separated by ".", the last one of two or more
\* letters; and no ".." anywhere
IsEmail(chars) ==
    LET ats == {i \in 1..Len(chars) : chars[i] = "@"}
    IN  /\ Cardinality(ats) = 1
        /\ LET at == CHOOSE i \in ats : TRUE
               local == SubSeq(chars, 1, at - 1)
               domain == SubSeq(chars, at + 1, Len(chars))
               dots == {i \in 1..Len(domain) : domain[i] = "."}
           IN  /\ local # <<>>
               /\ \A i \in 1..Len(local) :
                    IsAlnum(local[i]) \/ local[i] \in {"_", "'", "+", "-", "."}
               /\ local[1] # "."
               /\ local[Len(local)] # "." /\ local[Len(local)] # "'"
               /\ \A i \in 1..(Len(chars) - 1) : ~(chars[i] = "." /\ chars[i + 1] = ".")
               /\ dots # {}
               /\ \A i \in 1..Len(domain) : IsAlnum(domain[i]) \/ domain[i] \in {"-", "."}
               /\ IsAlnum(domain[1])
               /\ \A i \in dots : i < Len(domain) /\ IsAlnum(domain[i + 1])
               /\ LET last == CHOOSE i \in dots : \A j \in dots : j <= i
                  IN  /\ Len(domain) - last >= 2
                      /\ \A i \in (last + 1)..Len(domain) : IsLetter(domain[i])

\* z.string().min(1).max(255)
IsName(v) == v.t = "string" /\ Len(v.s) >= 1 /\ Len(v.s) <= 255
\* z.string().email()
IsEmailString(v) == v.t = "string" /\ IsEmail(v.s)
\* z.string().min(1)
IsPassword(v) == v.t = "string" /\ Len(v.s) >= 1

\* createUserInputSchema.parse(body) returns (full_name and profile_image_url,
\* both optional, are absent from the bodies drawn)
createUserInputSchema(body) ==
    /\ IsName(body.username)
    /\ IsEmailString(body.email)
    /\ IsPassword(body.password_hash)

\* updateUserInputSchema.parse({id, ...body}) returns
updateUserInputSchema(id, body) ==
    /\ id.t = "string"
    /\ body.username = Undefined \/ IsName(body.username)
    /\ body.email = Undefined \/ IsEmailString(body.email)

\* the user object of a response
UserObject(row) ==
    [id |-> Str(IntToChars(row.id)), username |-> row.username, email |-> row.email]

\* jwt.sign({user_id, email}, JWT_SECRET, {expiresIn: '7d'}): a token that
\* jwt.verify accepts
Sign(user_id) == Jwt(TRUE, user_id)

\* what a handler of an account route leaves: its response and the users table
AccountOutcome(resp, rows, seq) ==
    [response |-> resp, calls |-> <<>>, handled |-> TRUE, users |-> rows, users_id_seq |-> seq]

\* the UNIQUE constraints of users refuse the row
UniqueViolation(row, rows) ==
    \E u \in rows : u.id # row.id /\ (u.username = row.username \/ u.email = row.email)

ValidationError == ErrorResponse(400, "Validation error", "VALIDATION_ERROR")

\* mutant: the user is answered as created but the row is not stored
RegisterHandler_notStored(req) ==
    LET body == req.body
    IN  IF ~createUserInputSchema(body)
        THEN AccountOutcome(ValidationError, users, users_id_seq)
        ELSE LET existingUser ==
                    {u \in users : u.email = body.email \/ u.username = body.username}
                 row == UserRow(users_id_seq + 1, body.username, NormalizeEmail(body.email),
                                body.password_hash)
             IN  IF existingUser # {}
                 THEN AccountOutcome(
                        ErrorResponse(400, "User with this email or username already exists",
                                      "USER_ALREADY_EXISTS"), users, users_id_seq)
                 ELSE AccountOutcome(
                        [status |-> 201,
                         body |-> [user |-> UserObject(row), auth_token |-> Sign(row.id)]],
                        users, users_id_seq + 1)

\* POST /api/auth/register, lines 199-242; the INSERT draws the next id from
\* the sequence whether or not a constraint then refuses the row
RegisterHandler(req) ==
    LET body == req.body
    IN  IF ~createUserInputSchema(body)
        THEN AccountOutcome(ValidationError, users, users_id_seq)
        ELSE LET existingUser ==
                    {u \in users : u.email = body.email \/ u.username = body.username}
                 row == UserRow(users_id_seq + 1, body.username, NormalizeEmail(body.email),
                                body.password_hash)
             IN  IF existingUser # {}
                 THEN AccountOutcome(
                        ErrorResponse(400, "User with this email or username already exists",
                                      "USER_ALREADY_EXISTS"), users, users_id_seq)
                 ELSE IF UniqueViolation(row, users)
                 THEN AccountOutcome(InternalError, users, users_id_seq + 1)
                 ELSE AccountOutcome(
                        [status |-> 201,
                         body |-> [user |-> UserObject(row), auth_token |-> Sign(row.id)]],
                        users \cup {row}, users_id_seq + 1)

\* POST /api/auth/login, lines 249-291
LoginHandler(req) ==
    LET email == req.body.email
        password_hash == req.body.password_hash
    IN  IF ~Truthy(email) \/ ~Truthy(password_hash)
        THEN AccountOutcome(
                ErrorResponse(400, "Email and password are required", "MISSING_REQUIRED_FIELDS"),
                users, users_id_seq)
        ELSE IF email.t # "string"
        THEN AccountOutcome(InternalError, users, users_id_seq)
        ELSE LET rows == {u \in users : u.email = NormalizeEmail(email)}
             IN  IF rows = {}
                 THEN AccountOutcome(
                        ErrorResponse(400, "Invalid email or password", "INVALID_CREDENTIALS"),
                        users, users_id_seq)
                 ELSE LET user == CHOOSE u \in rows : TRUE
                      IN  IF password_hash # user.password_hash
                          THEN AccountOutcome(
                                 ErrorResponse(400, "Invalid email or password",
                                               "INVALID_CREDENTIALS"), users, users_id_seq)
                          ELSE AccountOutcome(
                                 [status |-> 200,
                                  body |-> [user |-> UserObject(user),
                                            auth_token |-> Sign(user.id)]],
                                 users, users_id_seq)

\* the users that rows of posts and of comments reference (db.sql 45-60)
PostAuthors == {1, 2, 3, 4, 5}
CommentAuthors == {1, 2, 3, 4, 5}

\* a parameter bound to the integer column id: its value, when it reads as one
IsInteger(param) == param.s # <<>> /\ \A i \in 1..Len(param.s) : IsDigit(param.s[i])

Forbidden(message) == ErrorResponse(403, message, "FORBIDDEN")
UserNotFound == ErrorResponse(404, "User not found", "USER_NOT_FOUND")

\* GET /api/users/:user_id, lines 299-321
GetUserHandler(req, user) ==
    LET user_id == req.params.user_id
    IN  IF ~IsInteger(user_id) THEN AccountOutcome(InternalError, users, users_id_seq)
        ELSE LET rows == {u \in users : u.id = DigitsVal(user_id.s)}
             IN  IF rows = {} THEN AccountOutcome(UserNotFound, users, users_id_seq)
                 ELSE AccountOutcome([status |-> 200,
                                      body |-> UserObject(CHOOSE u \in rows : TRUE)],
                                     users, users_id_seq)

\* PUT /api/users/:user_id, lines 327-388
UpdateUserHandler(req, user) ==
    LET user_id == req.params.user_id
        body == req.body
        row == UserRow(user.id,
                       IF body.username # Undefined THEN body.username ELSE user.username,
                       IF body.email # Undefined THEN NormalizeEmail(body.email)
                       ELSE user.email,
                       user.password_hash)
    IN  IF Str(IntToChars(user.id)) # user_id
        THEN AccountOutcome(Forbidden("Forbidden: Can only update own profile"),
                            users, users_id_seq)
        ELSE IF ~updateUserInputSchema(user_id, body)
        THEN AccountOutcome(ValidationError, users, users_id_seq)
        ELSE IF body.username = Undefined /\ body.email = Undefined
        THEN AccountOutcome(ErrorResponse(400, "No fields to update", "NO_UPDATE_FIELDS"),
                            users, users_id_seq)
        ELSE IF UniqueViolation(row, users)
        THEN AccountOutcome(InternalError, users, users_id_seq)
        ELSE AccountOutcome([status |-> 200, body |-> UserObject(row)],
                            (users \ {user}) \cup {row}, users_id_seq)

\* DELETE /api/users/:user_id, lines 394-414; the foreign keys of posts and
\* comments refuse the deletion of a user they reference
DeleteUserHandler(req, user) ==
    LET user_id == req.params.user_id
    IN  IF Str(IntToChars(user.id)) # user_id
        THEN AccountOutcome(Forbidden("Forbidden: Can only delete own account"),
                            users, users_id_seq)
        ELSE IF user.id \in PostAuthors \cup CommentAuthors
        THEN AccountOutcome(InternalError, users, users_id_seq)
        ELSE AccountOutcome([status |-> 204], users \ {user}, users_id_seq)

---------------------------------------------------------------------------
(* The other routes (server.ts 604-1246): handlers that answer with mock   *)
(* payloads.                                                               *)

\* the routes behind authenticateToken whose handlers return mock data
MockRoutes ==
    {"GET /api/impact", "GET /api/goals", "POST /api/goals", "GET /api/goals/:goal_id",
     "PUT /api/goals/:goal_id", "DELETE /api/goals/:goal_id", "GET /api/challenges",
     "POST /api/challenges", "GET /api/challenges/:challenge_id",
     "PUT /api/challenges/:challenge_id", "DELETE /api/challenges/:challenge_id",
     "POST /api/challenges/:challenge_id", "GET /api/educational_contents",
     "GET /api/educational_contents/:content_id", "GET /api/rewards",
     "POST /api/rewards/:reward_id", "GET /api/notifications",
     "PUT /api/notifications/:notification_id", "GET /api/achievements"}

MockPayload == [t |-> "mock"]

\* the handler of a mock route; `complete` tells whether the body carries
\* the fields lines 690 and 851 require
MockHandler(req, user) ==
    IF req.route \in {"POST /api/goals", "POST /api/challenges"}
    THEN IF req.complete THEN Outcome([status |-> 201, body |-> MockPayload], <<>>)
         ELSE Outcome(ErrorResponse(400, "Required fields are missing",
                                    "MISSING_REQUIRED_FIELDS"), <<>>)
    ELSE IF req.route \in {"DELETE /api/goals/:goal_id",
                           "DELETE /api/challenges/:challenge_id"}
    THEN Outcome([status |-> 204], <<>>)
    ELSE Outcome([status |-> 200, body |-> MockPayload], <<>>)

\* GET /api/health, lines 1239-1245
HealthHandler(req) == Outcome([status |-> 200, body |-> [status |-> "ok"]], <<>>)

\* every route server.ts registers under /api
ProtectedRoutes ==
    MockRoutes \cup
    {"GET /api/users/:user_id", "PUT /api/users/:user_id", "DELETE /api/users/:user_id",
     "GET /api/activities", "POST /api/activities", "GET /api/activities/:activity_id",
     "PUT /api/activities/:activity_id", "DELETE /api/activities/:activity_id"}
PublicRoutes == {"POST /api/auth/register", "POST /api/auth/login", "GET /api/health"}
RegisteredRoutes == ProtectedRoutes \cup PublicRoutes

\* a request no registered route matches: Express answers 404 and no
\* handler runs
Unrouted(req) == [response |-> [status |-> 404], calls |-> <<>>, handled |-> FALSE]

---------------------------------------------------------------------------
(* Likes: the schema of a like and the likes table.                        *)

\* z.string().nullable()
IsNullableString(v) == v.t \in {"string", "null"}

\* createLikeInputSchema.parse(data) returns
createLikeInputSchema(data) ==
    /\ data.user_id.t = "string"
    /\ IsNullableString(data.post_id)
    /\ IsNullableString(data.comment_id)
    /\ (data.post_id # Null) # (data.comment_id # Null)

\* the likes table takes the row: its primary key (user_id, post_id,
\* comment_id) makes the three columns NOT NULL, and its CHECK wants
\* exactly one of post_id and comment_id to be NULL
LikesTableAccepts(row) ==
    /\ row.user_id # Null /\ row.post_id # Null /\ row.comment_id # Null
    /\ \/ row.post_id = Null /\ row.comment_id # Null
       \/ row.post_id # Null /\ row.comment_id = Null

\* the requests drawn
AuthHeaders ==
    {Undefined, Header(<<"Bearer">>), Header(<<"Bearer", EmptyString>>),
     Header(<<"Bearer", Jwt(FALSE, 1)>>), Header(<<"Bearer", Jwt(TRUE, 1)>>),
     Header(<<"Bearer", Jwt(TRUE, 6)>>), Header(<<"Bearer", Jwt(TRUE, 9)>>)}

\* the category of the test 'should fail activity creation with invalid category'
InvalidCategory ==
    Str(<<"I", "n", "v", "a", "l", "i", "d", "C", "a", "t", "e", "g", "o", "r", "y">>)
\* the category of the test 'should create activity with valid data'
Transport == Str(<<"T", "r", "a", "n", "s", "p", "o", "r", "t">>)

BodyCategories ==
    {Undefined, EmptyString, transport, waste, diet, Transport, InvalidCategory}
BodyValues ==
    {Undefined, Null, Zero, Num(52, 10), Num(1, 2), Num(-1, 100), Num(4, 100),
     Num(1, 100), Num(5, 1),
     Str(<<"5", ".", "2">>), Str(<<"0">>), Str(<<" ">>), Str(<<"a", "b", "c">>),
     EmptyString, Bool(TRUE)}
BodyUnits == {Undefined, EmptyString, miles, kg}
BodyTimestamps == {Undefined, Str(<<"2", "0", "2", "4">>)}
ActivityIds == {Str(<<"1">>), Str(<<"7">>)}

ActivityBodies ==
    [category : BodyCategories, value : BodyValues, unit : BodyUnits,
     timestamp : BodyTimestamps]

ListQueries ==
    [category : {Undefined, transport, diet},
     sort_by : {Undefined, Str(<<"v", "a", "l", "u", "e">>), Str(<<"i", "m", "p", "a", "c", "t">>)},
     sort_order : {Undefined, Str(<<"a", "s", "c">>)},
     limit : {Undefined, Str(<<"1">>), Str(<<"2">>), Str(<<"x">>)},
     offset : {Undefined, Str(<<"1">>), Str(<<"-", "1">>)}]

Idle == request = NoRequest /\ response = NoResponse

\* one request answered: what the middleware and the handler left
Answer(req, outcome) ==
    /\ request' = req
    /\ response' = outcome.response
    /\ handled' = outcome.handled
    /\ calls' = outcome.calls
    /\ impactMultipliers' = IF outcome.calls = <<>> THEN impactMultipliers
                            ELSE BindImpactMultipliers(impactMultipliers)

\* one request served by a route that leaves the database alone:
\* authenticateToken, then the route's handler
Serve(req, outcome) ==
    /\ Answer(req, outcome)
    /\ UNCHANGED <<users, users_id_seq>>

\* authenticateToken ended the request: the handler is not called
Rejected(auth) == [response |-> auth.response, calls |-> <<>>, handled |-> FALSE]

ListActivitiesOf(queries) ==
    /\ Idle
    /\ \E authorization \in AuthHeaders, query \in queries :
        LET req == [route |-> "GET /api/activities",
                    headers |-> [authorization |-> authorization], query |-> query]
            auth == authenticateToken(req)
        IN  IF ~auth.next THEN Serve(req, Rejected(auth))
            ELSE \E sorted \in ListArrangements(req, auth.user) :
                    Serve(req, ListActivitiesHandler(req, auth.user, sorted))

CreateActivityOf(bodies) ==
    /\ Idle
    /\ \E authorization \in AuthHeaders, body \in bodies :
        LET req == [route |-> "POST /api/activities",
                    headers |-> [authorization |-> authorization], body |-> body]
            auth == authenticateToken(req)
        IN  Serve(req, IF auth.next THEN CreateActivityHandler(req, auth.user)
                       ELSE Rejected(auth))

GetActivity ==
    /\ Idle
    /\ \E authorization \in AuthHeaders, activity_id \in ActivityIds :
        LET req == [route |-> "GET /api/activities/:activity_id",
                    headers |-> [authorization |-> authorization],
                    params |-> [activity_id |-> activity_id]]
            auth == authenticateToken(req)
        IN  Serve(req, IF auth.next THEN GetActivityHandler(req, auth.user)
                       ELSE Rejected(auth))

UpdateActivityOf(bodies) ==
    /\ Idle
    /\ \E authorization \in AuthHeaders, activity_id \in ActivityIds, body \in bodies :
        LET req == [route |-> "PUT /api/activities/:activity_id",
                    headers |-> [authorization |-> authorization],
                    params |-> [activity_id |-> activity_id], body |-> body]
            auth == authenticateToken(req)
        IN  Serve(req, IF auth.next THEN UpdateActivityHandler(req, auth.user)
                       ELSE Rejected(auth))

DeleteActivity ==
    /\ Idle
    /\ \E authorization \in AuthHeaders, activity_id \in ActivityIds :
        LET req == [route |-> "DELETE /api/activities/:activity_id",
                    headers |-> [authorization |-> authorization],
                    params |-> [activity_id |-> activity_id]]
            auth == authenticateToken(req)
        IN  Serve(req, IF auth.next THEN DeleteActivityHandler(req, auth.user)
                       ELSE Rejected(auth))

ListActivities == ListActivitiesOf(ListQueries)
CreateActivity == CreateActivityOf(ActivityBodies)
UpdateActivity == UpdateActivityOf(ActivityBodies)

\* the response has gone out and the request is over
Finish ==
    /\ request # NoRequest
    /\ request' = NoRequest
    /\ response' = NoResponse
    /\ handled' = FALSE
    /\ calls' = <<>>
    /\ UNCHANGED <<impactMultipliers, users, users_id_seq>>

NextApi ==
    \/ ListActivities
    \/ CreateActivity
    \/ GetActivity
    \/ UpdateActivity
    \/ DeleteActivity
    \/ Finish

SpecApi == Init /\ [][NextApi]_vars

---------------------------------------------------------------------------
(* The whole server: every route, the activity routes on one body each.    *)

john_doe == Str(<<"j", "o", "h", "n", "_", "d", "o", "e">>)
jane_smith == Str(<<"j", "a", "n", "e", "_", "s", "m", "i", "t", "h">>)
testuser == Str(<<"t", "e", "s", "t", "u", "s", "e", "r">>)
anotheruser == Str(<<"a", "n", "o", "t", "h", "e", "r", "u", "s", "e", "r">>)
JohnEmail == Str(<<"j", "o", "h", "n", "@", "e", "x", "a", "m", "p", "l", "e", ".", "c", "o", "m">>)
\* the same address as sent by a client that does not normalise it
JohnEmailAsTyped == Str(<<" ", "J", "o", "h", "n", "@", "E", "x", "a", "m", "p", "l", "e", ".", "c", "o", "m", " ">>)
TestEmail == Str(<<"t", "e", "s", "t", "@", "e", "x", "a", "m", "p", "l", "e", ".", "c", "o", "m">>)
TestEmailAsTyped == Str(<<"T", "e", "s", "t", "@", "E", "x", "a", "m", "p", "l", "e", ".", "c", "o", "m">>)
OtherEmail == Str(<<"a", "@", "b", ".", "c", "o">>)
InvalidEmail == Str(<<"i", "n", "v", "a", "l", "i", "d", "@", "e", "x", "a", "m", "p", "l", "e", ".", "c", "o", "m">>)
NotAnEmail == Str(<<"t", "e", "s", "t">>)
password123 == Str(<<"p", "a", "s", "s", "w", "o", "r", "d", "1", "2", "3">>)
wrongpassword == Str(<<"w", "r", "o", "n", "g", "p", "a", "s", "s", "w", "o", "r", "d">>)

RegisterBodies ==
    [username : {Undefined, EmptyString, john_doe, testuser, anotheruser},
     email : {Undefined, NotAnEmail, JohnEmail, JohnEmailAsTyped, TestEmail,
              TestEmailAsTyped, OtherEmail},
     password_hash : {Undefined, password123}]

LoginBodies ==
    [email : {Undefined, EmptyString, JohnEmail, JohnEmailAsTyped, TestEmail, InvalidEmail,
              Num(5, 1)},
     password_hash : {Undefined, EmptyString, password123, wrongpassword}]

UserIds == {Str(<<"1">>), Str(<<"2">>), Str(<<"6">>), Str(<<"0", "1">>), Str(<<"m", "e">>)}

UserUpdates ==
    [username : {Undefined, EmptyString, jane_smith, anotheruser},
     email : {Undefined, NotAnEmail, TestEmailAsTyped}]

LikeBodies ==
    [user_id : {Str(<<"1">>)},
     post_id : {Undefined, Null, Str(<<"1">>)},
     comment_id : {Undefined, Null, Str(<<"1">>)}]

SampleBodies ==
    {[category |-> transport, value |-> Num(52, 10), unit |-> miles, timestamp |-> Undefined],
     [category |-> transport, value |-> Undefined, unit |-> miles, timestamp |-> Undefined]}
SampleQueries ==
    {[category |-> Undefined, sort_by |-> Undefined, sort_order |-> Undefined,
      limit |-> Undefined, offset |-> Undefined]}

\* one request served by a route that reads or writes the users table
ServeAccount(req, outcome) ==
    /\ Answer(req, outcome)
    /\ users' = outcome.users
    /\ users_id_seq' = outcome.users_id_seq

RejectedAccount(auth) ==
    [response |-> auth.response, calls |-> <<>>, handled |-> FALSE,
     users |-> users, users_id_seq |-> users_id_seq]

Register ==
    /\ Idle
    /\ users_id_seq < Cardinality(SeedUsers) + MaxInserts
    /\ \E body \in RegisterBodies :
        LET req == [route |-> "POST /api/auth/register", body |-> body]
        IN  ServeAccount(req, RegisterHandler(req))

Login ==
    /\ Idle
    /\ \E body \in LoginBodies :
        LET req == [route |-> "POST /api/auth/login", body |-> body]
        IN  ServeAccount(req, LoginHandler(req))

GetUser ==
    /\ Idle
    /\ \E authorization \in AuthHeaders, user_id \in UserIds :
        LET req == [route |-> "GET /api/users/:user_id",
                    headers |-> [authorization |-> authorization],
                    params |-> [user_id |-> user_id]]
            auth == authenticateToken(req)
        IN  ServeAccount(req, IF auth.next THEN GetUserHandler(req, auth.user)
                              ELSE RejectedAccount(auth))

UpdateUser ==
    /\ Idle
    /\ \E authorization \in AuthHeaders, user_id \in UserIds, body \in UserUpdates :
        LET req == [route |-> "PUT /api/users/:user_id",
                    headers |-> [authorization |-> authorization],
                    params |-> [user_id |-> user_id], body |-> body]
            auth == authenticateToken(req)
        IN  ServeAccount(req, IF auth.next THEN UpdateUserHandler(req, auth.user)
                              ELSE RejectedAccount(auth))

DeleteUser ==
    /\ Idle
    /\ \E authorization \in AuthHeaders, user_id \in UserIds :
        LET req == [route |-> "DELETE /api/users/:user_id",
                    headers |-> [authorization |-> authorization],
                    params |-> [user_id |-> user_id]]
            auth == authenticateToken(req)
        IN  ServeAccount(req, IF auth.next THEN DeleteUserHandler(req, auth.user)
                              ELSE RejectedAccount(auth))

MockRoute ==
    /\ Idle
    /\ \E authorization \in AuthHeaders, route \in MockRoutes, complete \in BOOLEAN :
        LET req == [route |-> route, headers |-> [authorization |-> authorization],
                    complete |-> complete]
            auth == authenticateToken(req)
        IN  Serve(req, IF auth.next THEN MockHandler(req, auth.user) ELSE Rejected(auth))

Health ==
    /\ Idle
    /\ \E authorization \in AuthHeaders :
        LET req == [route |-> "GET /api/health", headers |-> [authorization |-> authorization]]
        IN  Serve(req, HealthHandler(req))

\* POST /api/likes: server.ts registers no such route
PostLike ==
    /\ Idle
    /\ \E authorization \in AuthHeaders, body \in LikeBodies :
        LET req == [route |-> "POST /api/likes",
                    headers |-> [authorization |-> authorization], body |-> body]
        IN  /\ req.route \notin RegisteredRoutes
            /\ Serve(req, Unrouted(req))

NextServer ==
    \/ Register
    \/ Login
    \/ GetUser
    \/ UpdateUser
    \/ DeleteUser
    \/ ListActivitiesOf(SampleQueries)
    \/ CreateActivityOf(SampleBodies)
    \/ GetActivity
    \/ UpdateActivityOf(SampleBodies)
    \/ DeleteActivity
    \/ MockRoute
    \/ Health
    \/ PostLike
    \/ Finish

SpecServer == Init /\ [][NextServer]_vars

---------------------------------------------------------------------------
(* Properties of the calculator called directly.                           *)

\* x rounded to two decimals, a tie going up: floor(100 x + 1/2) / 100
Round2(x) ==
    IF IsNum(x) THEN Num((200 * x.n + x.d) \div (2 * x.d), 100) ELSE NaN

\* the factor pairs the table declares first in each category
\* (biking, solar, recycling)
FirstDeclaredFactors(category) ==
    CASE category = transport -> [co2 |-> Num(4, 10), water |-> Num(1, 10)]
      [] category = energy -> [co2 |-> Num(25, 10), water |-> Num(5, 10)]
      [] category = waste -> [co2 |-> Num(18, 10), water |-> Num(3, 10)]

\* the result that the factor pair f gives for value
Expected(value, f) ==
    [co2_saved |-> Round2(Mul(value, f.co2)), water_conserved |-> Round2(Mul(value, f.water))]

NonNegative(x) == IsNum(x) /\ x.n >= 0
Negative(x) == IsNum(x) /\ x.n < 0
\* x is a whole number of hundredths
TwoDecimals(x) == IsNum(x) /\ 100 % x.d = 0

\* C1: for a category that is a key of the table and a value >= 0, the result
\* is round2(value * factor) for the factors of the first declared subtype
\* (biking, solar, recycling), whatever the other subtypes declare
C1_FirstSubtypeFactors ==
    \A i \in 1..Len(calls) :
        LET c == calls[i]
        IN  (c.category \in KnownCategories /\ NonNegative(c.value))
                => c.result = Expected(c.value, FirstDeclaredFactors(c.category))

\* transport with value 1/2 gave 0.2 and 0.05 (walking would give 0.15 and 0.03)
C1_Witness ==
    \E i \in 1..Len(calls) :
        /\ calls[i].category = transport
        /\ calls[i].value = Num(1, 2)
        /\ calls[i].result = [co2_saved |-> Num(2, 10), water_conserved |-> Num(5, 100)]

\* C2: for a category string that is not exactly a key of the table (diet,
\* water, a mis-cased key, ...), the result is round2(value * 0.5) and
\* round2(value * 0.1)
C2_UnknownCategoryDefaults ==
    \A i \in 1..Len(calls) :
        LET c == calls[i]
        IN  (c.category \in UnknownCategories /\ c.value.t \in {"number", "NaN"})
                => c.result = Expected(c.value, [co2 |-> Num(5, 10), water |-> Num(1, 10)])

\* the mis-cased 'Transport' with value 0.6 gave 0.3 and 0.06 (biking: 0.24)
C2_Witness ==
    \E i \in 1..Len(calls) :
        /\ calls[i].category = Str(<<"T", "r", "a", "n", "s", "p", "o", "r", "t">>)
        /\ calls[i].value = Num(6, 10)
        /\ calls[i].result = [co2_saved |-> Num(3, 10), water_conserved |-> Num(6, 100)]

\* C3: a value of 0 gives co2_saved = 0 and water_conserved = 0 in every category
C3_ZeroValue ==
    \A i \in 1..Len(calls) :
        calls[i].value = Zero
            => calls[i].result = [co2_saved |-> Zero, water_conserved |-> Zero]

C3_Witness ==
    \E i \in 1..Len(calls) :
        /\ calls[i].value = Zero
        /\ calls[i].category = energy
        /\ calls[i].result = [co2_saved |-> Zero, water_conserved |-> Zero]

\* C5: for a value >= 0 both fields of the result are non-negative and are
\* whole numbers of hundredths
C5_NonNegativeTwoDecimals ==
    \A i \in 1..Len(calls) :
        LET c == calls[i]
        IN  NonNegative(c.value)
                => /\ Returned(c.result)
                   /\ NonNegative(c.result.co2_saved) /\ TwoDecimals(c.result.co2_saved)
                   /\ NonNegative(c.result.water_conserved) /\ TwoDecimals(c.result.water_conserved)

\* transport with value 0.04: the products 0.016 and 0.004 came back as 0.02 and 0
C5_Witness ==
    \E i \in 1..Len(calls) :
        /\ calls[i].category = transport
        /\ calls[i].value = Num(4, 100)
        /\ calls[i].result = [co2_saved |-> Num(2, 100), water_conserved |-> Zero]

\* C6: every call, for any category string and any number (NaN included),
\* returns a record with exactly the fields co2_saved and water_conserved;
\* none raises
C6_Total ==
    \A i \in 1..Len(calls) :
        /\ Returned(calls[i].result)
        /\ DOMAIN calls[i].result = {"co2_saved", "water_conserved"}

\* calls with a name every object inherits, with the empty string and with NaN
\* returned
C6_Witness ==
    \E i \in 1..Len(calls) :
        /\ calls[i].category \in {Str(<<"_", "_", "p", "r", "o", "t", "o", "_", "_">>),
                                  Str(<<"c", "o", "n", "s", "t", "r", "u", "c", "t", "o", "r">>),
                                  EmptyString}
        /\ calls[i].value = NaN
        /\ calls[i].result = [co2_saved |-> NaN, water_conserved |-> NaN]

\* C9 as stated: every value < 0 gives a co2_saved and a water_conserved that
\* are both negative
C9_NegativeGivesNegative ==
    \A i \in 1..Len(calls) :
        LET c == calls[i]
        IN  Negative(c.value)
                => /\ Returned(c.result)
                   /\ Negative(c.result.co2_saved)
                   /\ Negative(c.result.water_conserved)

\* C9 as amended: a value < 0 is not rejected and gives fields that are never
\* positive; both are negative once value <= -0.1, and a smaller magnitude
\* can round to zero
C9_NegativeNeverPositive ==
    \A i \in 1..Len(calls) :
        LET c == calls[i]
        IN  Negative(c.value)
                => /\ Returned(c.result)
                   /\ ~Less(Zero, c.result.co2_saved) /\ IsNum(c.result.co2_saved)
                   /\ ~Less(Zero, c.result.water_conserved) /\ IsNum(c.result.water_conserved)
                   /\ ~Less(Num(-1, 10), c.value)
                        => Negative(c.result.co2_saved) /\ Negative(c.result.water_conserved)

\* transport with value -0.1 gave -0.04 and -0.01
C9_Witness ==
    \E i \in 1..Len(calls) :
        /\ calls[i].category = transport
        /\ calls[i].value = Num(-1, 10)
        /\ calls[i].result = [co2_saved |-> Num(-4, 100), water_conserved |-> Num(-1, 100)]

---------------------------------------------------------------------------
(* Properties of successive calls.                                         *)

SameArguments(c, d) ==
    c.category = d.category /\ c.value = d.value /\ c.unit = d.unit

\* any two recorded calls with the same arguments gave the same result
SameArgumentsSameResult ==
    \A i, j \in 1..Len(calls) :
        SameArguments(calls[i], calls[j]) => calls[i].result = calls[j].result

\* C7: two calls with identical (category, value, unit) return identical
\* results whatever calls happened before or between them, and no call
\* changes the multiplier table
C7_DeterministicStateless ==
    /\ []SameArgumentsSameResult
    /\ [][impactMultipliers' = impactMultipliers]_vars

\* the same call made first and third, a call in another category in between
C7_Witness ==
    /\ Len(calls) >= 3
    /\ SameArguments(calls[1], calls[3])
    /\ calls[1].category = transport /\ calls[1].value = Num(1, 2)
    /\ calls[2].category = waste
    /\ calls[3].result = [co2_saved |-> Num(2, 10), water_conserved |-> Num(5, 100)]

\* C8: two calls that differ at most in the unit return the same result
C8_UnitIgnored ==
    \A i, j \in 1..Len(calls) :
        (calls[i].category = calls[j].category /\ calls[i].value = calls[j].value)
            => calls[i].result = calls[j].result

\* waste with value 1/2, once in miles and once in kg, gave 0.9 and 0.15 both times
C8_Witness ==
    \E i, j \in 1..Len(calls) :
        /\ calls[i].category = waste /\ calls[j].category = waste
        /\ calls[i].value = Num(1, 2) /\ calls[j].value = Num(1, 2)
        /\ calls[i].unit = miles /\ calls[j].unit = kg
        /\ calls[i].result = [co2_saved |-> Num(9, 10), water_conserved |-> Num(15, 100)]
        /\ calls[j].result = calls[i].result

---------------------------------------------------------------------------
(* Properties of the activity endpoints.                                   *)

Impact(co2_saved, water_conserved) ==
    [co2_saved |-> co2_saved, water_conserved |-> water_conserved]

\* the response carries the listing
Listed == request.route = "GET /api/activities" /\ response.status = 200

\* the response carries one activity resource
ResourceReturned ==
    /\ request.route \in {"POST /api/activities", "GET /api/activities/:activity_id",
                          "PUT /api/activities/:activity_id"}
    /\ response.status \in {200, 201}

\* the activity resources in the response
ReturnedActivities ==
    IF Listed THEN {response.body[i] : i \in 1..Len(response.body)}
    ELSE IF ResourceReturned THEN {response.body}
    ELSE {}

\* C4: calculateImpact('transport', 5.2) = {2.08, 0.52},
\* calculateImpact('energy', 3.5) = {8.75, 1.75} and
\* calculateImpact('waste', 2.1) = {3.78, 0.63}, and the three activities the
\* listing returns carry these impacts
C4_WorkedExamples ==
    /\ \A i \in 1..Len(calls) :
        LET c == calls[i]
        IN  /\ (c.category = transport /\ c.value = Num(52, 10))
                => c.result = Impact(Num(208, 100), Num(52, 100))
            /\ (c.category = energy /\ c.value = Num(35, 10))
                => c.result = Impact(Num(875, 100), Num(175, 100))
            /\ (c.category = waste /\ c.value = Num(21, 10))
                => c.result = Impact(Num(378, 100), Num(63, 100))
    /\ Listed =>
        \A a \in ReturnedActivities :
            /\ a.id = Str(<<"1">>) => a.impact = Impact(Num(208, 100), Num(52, 100))
            /\ a.id = Str(<<"2">>) => a.impact = Impact(Num(875, 100), Num(175, 100))
            /\ a.id = Str(<<"3">>) => a.impact = Impact(Num(378, 100), Num(63, 100))
            /\ a.id \in {Str(<<"1">>), Str(<<"2">>), Str(<<"3">>)}

\* the listing returned all three activities, after the three calls
C4_Witness ==
    /\ Listed
    /\ Len(response.body) = 3
    /\ Len(calls) = 3
    /\ calls[2].result = Impact(Num(875, 100), Num(175, 100))
    /\ \E i \in 1..3 : response.body[i].id = Str(<<"3">>)
                        /\ response.body[i].impact = Impact(Num(378, 100), Num(63, 100))

---------------------------------------------------------------------------
(* Properties of the validation the activity endpoints do.                 *)

CreateRoute == "POST /api/activities"
UpdateRoute == "PUT /api/activities/:activity_id"

\* a number, or a string that reads as one
Numeric(value) == IsNum(value) \/ (value.t = "string" /\ IsNum(ToNumber(value)))

\* C11: the create and the update activity handler never call
\* calculateImpact with a non-numeric value or a missing category
C11_ValidatedBeforeCalculator ==
    request.route \in {CreateRoute, UpdateRoute} =>
        \A i \in 1..Len(calls) :
            /\ Numeric(calls[i].value)
            /\ calls[i].category \notin {Undefined, Null, EmptyString}

\* the create handler ran on a body with a category, a positive numeric
\* value and a unit
ValidCreate ==
    /\ request.route = CreateRoute
    /\ handled
    /\ request.body.category.t = "string" /\ Truthy(request.body.category)
    /\ request.body.unit.t = "string" /\ Truthy(request.body.unit)
    /\ Numeric(request.body.value)
    /\ Less(Zero, ToNumber(request.body.value))

Created == response.status = 201 /\ Returned(response.body.impact)

\* C12 as stated: every authenticated create with a category, a positive
\* numeric value and a unit is answered 201 with an impact whose co2_saved
\* is greater than 0
C12_PositiveCo2 ==
    ValidCreate => Created /\ Less(Zero, response.body.impact.co2_saved)

\* C12, amended: such a create is answered 201 with an impact whose
\* co2_saved is never negative, and is greater than 0 whenever the value is
\* at least 0.02
C12_PositiveCo2FromTwoCents ==
    ValidCreate =>
        /\ Created
        /\ NonNegative(response.body.impact.co2_saved)
        /\ ~Less(ToNumber(request.body.value), Num(2, 100))
            => Less(Zero, response.body.impact.co2_saved)

\* the create of the test: 'Transport', 5, 'miles' answered 201 with
\* co2_saved 2.5; and a create of 0.04 transport miles answered 0.02
C12_Witness ==
    /\ ValidCreate
    /\ Created
    /\ \/ /\ request.body.category = Transport
           /\ request.body.value = Num(5, 1)
           /\ response.body.impact.co2_saved = Num(25, 10)
       \/ /\ request.body.category = transport
           /\ request.body.value = Num(4, 100)
           /\ response.body.impact.co2_saved = Num(2, 100)

\* the categories some part of the program names: the keys of the
\* multiplier table, the options of the activity form, and the category of
\* the test of a valid create
RecognizedCategories == KnownCategories \cup FormCategories \cup {Transport}

\* the response carries an activity resource
ActivityReturned ==
    /\ response.status \in {200, 201}
    /\ "impact" \in DOMAIN response.body

\* C13: an authenticated create whose category is not a recognized one is
\* answered 400 and returns no activity
C13_UnknownCategoryRejected ==
    ( /\ request.route = CreateRoute
      /\ handled
      /\ request.body.category.t = "string"
      /\ Truthy(request.body.category)
      /\ request.body.category \notin RecognizedCategories )
    => response.status = 400 /\ ~ActivityReturned

\* the body lacks the field: it is absent or null
Lacks(field) == field \in {Undefined, Null}

\* C14: an authenticated create whose body lacks category, value or unit is
\* answered 400 MISSING_REQUIRED_FIELDS, without calling calculateImpact
\* and without returning an activity
C14_MissingFieldRejected ==
    ( /\ request.route = CreateRoute
      /\ handled
      /\ \/ Lacks(request.body.category)
         \/ Lacks(request.body.value)
         \/ Lacks(request.body.unit) )
    => /\ response.status = 400
       /\ response.body.error_code = "MISSING_REQUIRED_FIELDS"
       /\ calls = <<>>
       /\ ~ActivityReturned

\* the create of the test: a category alone, answered 400 with no call made
C14_Witness ==
    /\ request.route = CreateRoute
    /\ handled
    /\ request.body.category = Transport
    /\ request.body.value = Undefined
    /\ request.body.unit = Undefined
    /\ response.status = 400
    /\ response.body.error_code = "MISSING_REQUIRED_FIELDS"
    /\ calls = <<>>

---------------------------------------------------------------------------
(* Properties of the server's routes.                                      *)

\* the request is to a route behind authenticateToken
Protected == request.route \in ProtectedRoutes

\* the Authorization header is absent, or has nothing after its scheme
NoBearerToken(authorization) ==
    \/ authorization = Undefined
    \/ Len(authorization.parts) < 2
    \/ authorization.parts[2] = EmptyString

\* the header carries a token that jwt.verify refuses
UnverifiableToken(authorization) ==
    /\ ~NoBearerToken(authorization)
    /\ authorization.parts[2].t = "jwt" => ~authorization.parts[2].verifies

\* C15: a request to a protected route that carries no bearer token is
\* answered 401 and its route handler never runs
C15_NoTokenUnauthorized ==
    (Protected /\ NoBearerToken(request.headers.authorization))
    => /\ response.status = 401
       /\ ~handled
       /\ calls = <<>>

\* GET /api/activities and a mock route without an Authorization header
\* were answered 401 AUTH_TOKEN_MISSING, the handler not having run
C15_Witness ==
    /\ request.route \in {"GET /api/activities", "GET /api/achievements"}
    /\ request.headers.authorization = Undefined
    /\ response.status = 401
    /\ response.body.error_code = "AUTH_TOKEN_MISSING"
    /\ ~handled

\* C16: a request to a protected route whose bearer token fails JWT
\* verification is answered 401 and its route handler never runs
C16_BadTokenUnauthorized ==
    (Protected /\ UnverifiableToken(request.headers.authorization))
    => /\ response.status = 401
       /\ ~handled

LoginRoute == "POST /api/auth/login"
RegisterRoute == "POST /api/auth/register"

\* the response carries an auth_token
TokenIssued ==
    /\ "body" \in DOMAIN response
    /\ "auth_token" \in DOMAIN response.body

\* the users whose stored email is the one sent, however it was typed
UsersWithEmail(email, rows) == {u \in rows : u.email = NormalizeEmail(email)}

\* the login sent an email and a password, and the email matches no user or
\* the password differs from the stored one
BadCredentials ==
    /\ request.route = LoginRoute
    /\ request.body.email.t = "string" /\ Truthy(request.body.email)
    /\ request.body.password_hash.t = "string" /\ Truthy(request.body.password_hash)
    /\ \A u \in UsersWithEmail(request.body.email, users) :
            u.password_hash # request.body.password_hash

\* C17: a login with an email that matches no user, or with a password
\* that differs from the stored one, is answered 401 and issues no token
C17_BadCredentialsUnauthorized ==
    BadCredentials => response.status = 401 /\ ~TokenIssued

\* C18: a registration with an email an existing user already has, even
\* with a different username, is answered 409 and creates no user
C18_DuplicateEmailConflict ==
    [][ ( /\ request'.route = RegisterRoute
          /\ createUserInputSchema(request'.body)
          /\ UsersWithEmail(request'.body.email, users) # {} )
        => (response'.status = 409 /\ users' = users) ]_vars

\* C19: a registration with a valid body whose username and email are not
\* in use is answered 201 with a user object carrying an id and the
\* submitted username, and with an auth_token; afterwards exactly one user
\* has that username
C19_RegisterCreatesOneUser ==
    [][ ( /\ request'.route = RegisterRoute
          /\ createUserInputSchema(request'.body)
          /\ UsersWithEmail(request'.body.email, users) = {}
          /\ \A u \in users : u.username # request'.body.username )
        => /\ response'.status = 201
           /\ response'.body.user.id.t = "string" /\ Truthy(response'.body.user.id)
           /\ response'.body.user.username = request'.body.username
           /\ response'.body.auth_token.t = "jwt" /\ response'.body.auth_token.verifies
           /\ \A u \in users : Str(IntToChars(u.id)) # response'.body.user.id
           /\ Cardinality({u \in users' : u.username = request'.body.username}) = 1 ]_vars

\* the registration of the test was answered 201 with id "6" and a token for
\* user 6, and testuser is in the table once, with the email in lower case
C19_Witness ==
    /\ request.route = RegisterRoute
    /\ request.body.username = testuser
    /\ request.body.email = TestEmailAsTyped
    /\ response.status = 201
    /\ response.body.user = [id |-> Str(<<"6">>), username |-> testuser, email |-> TestEmail]
    /\ response.body.auth_token = Jwt(TRUE, 6)
    /\ {u \in users : u.username = testuser} = {UserRow(6, testuser, TestEmail, password123)}

LikeRoute == "POST /api/likes"

\* the like names exactly one of a post and a comment
ExactlyOneReference(like) ==
    (like.post_id \notin {Undefined, Null}) # (like.comment_id \notin {Undefined, Null})

\* the row a like request would store: an absent reference is NULL
LikeRow(like) ==
    [user_id |-> like.user_id,
     post_id |-> IF like.post_id = Undefined THEN Null ELSE like.post_id,
     comment_id |-> IF like.comment_id = Undefined THEN Null ELSE like.comment_id]

\* C20: a like request naming both a post and a comment, or neither, is
\* answered 400, and neither createLikeInputSchema nor the likes table
\* accepts such a like
C20_LikeExactlyOneReference ==
    (request.route = LikeRoute /\ ~ExactlyOneReference(request.body))
    => /\ response.status = 400
       /\ ~createLikeInputSchema(request.body)
       /\ ~LikesTableAccepts(LikeRow(request.body))

=============================================================================
